---- MODULE Spec2Model ----
(***************************************************************************)
(* Session-based authentication (Authentication_&_Authorization):          *)
(* routes/user.routes.js (POST /user/signup, POST /user/login) and the     *)
(* global session middleware of index.js, over the two relations of        *)
(* db/schema.js (users, user_sessions).                                    *)
(*                                                                         *)
(* Every handler is an async function; it is split at its awaits.  Each    *)
(* action is one continuation of a handler together with the store call    *)
(* that continuation issues (the store executes single statements          *)
(* atomically).  Requests of different connections interleave freely.      *)
(*                                                                         *)
(* Chat room (01_events chatApp): class ChatRoom extends EventEmitter, its  *)
(* join, leave and sendMessage methods called in any order, and the demo     *)
(* script of chatApp/index.js.                                              *)
(*                                                                         *)
(* Book store (express-book-store), tweet server (http-server/index.ts)     *)
(* and todo list (todolist-with-orm-mvc createTodo): each has its own       *)
(* variables and its own specification below.                              *)
(***************************************************************************)
EXTENDS Integers, Sequences, FiniteSets, TLC

\* ------------------------------------------------------------------ bounds
\* rows the two relations may hold together
MaxRows == 3

\* calls made on one ChatRoom
MaxCalls == 4

\* requests the book store handles
MaxBookRequests == 4

\* POST /tweet requests the tweet server receives
MaxTweets == 2

\* rows relation todos may hold
MaxTodos == 2

\* client connections; each carries one request at a time
Conns == {"c1", "c2"}

\* ------------------------------------------------------------- JS values
\* the value of a property that is absent from req.body / req.headers
Undefined == "<undefined>"

\* JS truthiness of a string-or-undefined value (`!email`, `if (existingUser)`)
Truthy(v) == v # Undefined /\ v # ""

\* uuid().defaultRandom(): the identifier the store draws for the n-th row of
\* a relation ("u": users, "s": user_sessions); draws never repeat, within a
\* relation or across the two
Uuid(rel, n) == "uuid-" \o rel \o ToString(n)

IssuableUuids == {Uuid("u", n) : n \in 1..MaxRows} \cup {Uuid("s", n) : n \in 1..MaxRows}

\* the uuid input syntax the store accepts for a uuid column
IsUuid(s) == s \in IssuableUuids

\* faulty variant: one application-wide salt instead of a draw per signup
StaticSalt(n) == "salt-static"

\* randomBytes(256).toString('hex'): the n-th salt that reaches the store (a
\* salt drawn by a signup whose insert fails is dropped with the request)
RandomBytes(n) == "salt-" \o ToString(n)

\* createHmac('sha256', key).update(data).digest('hex'), as a symbolic
\* one-way term: equal digests iff equal (key, data)
Hmac(key, data) == "hmac(" \o key \o "," \o data \o ")"

\* ----------------------------------------------------------------- inputs
Names == {"John", "", Undefined}
Emails == {"john@x.com", "JOHN@X.COM", "", Undefined}
Passwords == {"secret123", "hunter2", "", Undefined}

BaseSignup == [name |-> "John", email |-> "john@x.com", password |-> "secret123"]

\* signup bodies: the scenario body with at most one field changed.  No line of
\* the signup handler tests a field for emptiness, so the empty string is
\* exercised through name and password only
SignupBodies ==
    {[BaseSignup EXCEPT !.name = n] : n \in Names}
    \cup {[BaseSignup EXCEPT !.email = e] : e \in Emails \ {""}}
    \cup {[BaseSignup EXCEPT !.password = p] : p \in Passwords}

BaseLogin == [email |-> "john@x.com", password |-> "secret123"]

\* login bodies: the scenario body with at most one field changed
LoginBodies ==
    {[BaseLogin EXCEPT !.email = e] : e \in Emails}
    \cup {[BaseLogin EXCEPT !.password = p] : p \in Passwords}

\* values of the session-id request header: none, a malformed one, the id of
\* a credential, and every id a session can have (a session needs a credential)
SessionHeaders ==
    {Undefined, "not-a-real-id", Uuid("u", 1)} \cup {Uuid("s", n) : n \in 1..(MaxRows - 1)}

\* ------------------------------------------------------------------ state
VARIABLES
    usersTable,     \* rows of relation users, in insertion order
    userSessions,   \* rows of relation user_sessions, in insertion order
    conn,           \* per connection: the request it carries and the handler's position
    users,          \* ChatRoom: this.users
    emitted,        \* ChatRoom: the events passed to this.emit, in order
    stderr,         \* ChatRoom: the lines written with console.error, in order
    lastCall,       \* ChatRoom: the latest method call and the state it was made in
    calls,          \* ChatRoom: number of method calls made
    script,         \* chat demo: the calls of index.js and the position reached in them
    BOOKS,          \* book store: the array exported by db/books.js
    serverLog,      \* book store: the entries appended to server.log, in order
    handled,        \* book store: the requests handled so far, each with its response
    db,             \* tweet server: the array db
    tweetReq,       \* tweet server: per connection, the request it carries
    ended,          \* tweet server: the POST /tweet requests whose 'end' fired, in order
    todosTable,     \* todo list: rows of relation todos, in insertion order
    todoUsersTable, \* todo list: rows of relation users
    todoReq         \* todo list: per connection, the request it carries and the handler's position

authVars == <<usersTable, userSessions, conn>>
chatVars == <<users, emitted, stderr, lastCall, calls>>
\* what the handlers of the authentication application cannot touch
bookVars == <<BOOKS, serverLog, handled>>
tweetVars == <<db, tweetReq, ended>>
todoVars == <<todosTable, todoUsersTable, todoReq>>
notAuthVars == <<chatVars, script, bookVars, tweetVars, todoVars>>
\* what the methods of a ChatRoom cannot touch
notChatVars == <<authVars, bookVars, tweetVars, todoVars>>
\* what the book store cannot touch
notBookVars == <<authVars, chatVars, script, tweetVars, todoVars>>
\* what the tweet server cannot touch
notTweetVars == <<authVars, chatVars, script, bookVars, todoVars>>
\* what the todo list application cannot touch
notTodoVars == <<authVars, chatVars, script, bookVars, tweetVars>>
vars ==
    <<usersTable, userSessions, conn, users, emitted, stderr, lastCall, calls, script,
      BOOKS, serverLog, handled, db, tweetReq, ended,
      todosTable, todoUsersTable, todoReq>>

\* ------------------------------------------------------------- responses
Json(status, body) == [status |-> status, body |-> body]

\* what the caller sees when the promise of an async handler rejects and
\* nothing catches it: Express 4 (the documented ^4.22.1) never answers;
\* Express 5 would forward it to the default error handler (500)
NoResponse == Json(0, [error |-> "<no response>"])
InternalError == Json(500, [error |-> "Internal Server Error"])
UnhandledRejection == {NoResponse, InternalError}

SignupDuplicateResponse(email) ==
    Json(400, [error |-> "User with email " \o email \o " already exists"])

SignupCreatedResponse(userId) ==
    Json(201, [userId |-> userId, message |-> "User created successfully"])

LoginRequiredResponse == Json(400, [error |-> "Email and password are required"])

\* faulty variant: the unknown-email branch with a message of its own
LoginUserNotFoundResponse == Json(404, [error |-> "User not found"])

LoginNoUserResponse ==
    Json(400, [error |-> "User does not exists with the provided email or password"])

LoginBadPasswordResponse ==
    Json(400, [error |-> "User does not exists with the provided email or password"])

LoginOkResponse(sessionId) ==
    Json(200, [message |-> "Login successfully", sessionId |-> sessionId])

\* app.get('/'): res.send('Hello, World!')
HelloWorldResponse == Json(200, [text |-> "Hello, World!"])

\* ensureAuthenticated: res.status(401).json({ error: 'You must be authenticated' })
NotAuthenticatedResponse == Json(401, [error |-> "You must be authenticated"])

\* GET /user/: the profile handler answers with req.user
ProfileResponse(user) == Json(200, user)

NoSessionIdResponse == Json(401, [error |-> "No session ID provided"])
InvalidSessionResponse == Json(401, [error |-> "Invalid session ID"])

\* the response slot of a request that has not been answered yet
Pending == Json(-1, [error |-> "<pending>"])

\* ------------------------------------------------------------------ store
\* faulty variant: the existence lookup filters on the wrong column
SelectUsersByName(email) == SelectSeq(usersTable, LAMBDA r : r.name = email)

\* db.select(...).from(usersTable).where(eq(table.email, email))
SelectUsersByEmail(email) == SelectSeq(usersTable, LAMBDA r : r.email = email)

\* users.name / users.email / users.password are notNull()
NotNullViolation(row) ==
    row.name = Undefined \/ row.email = Undefined \/ row.password = Undefined

\* faulty variant: the email column without its unique() constraint
NoUniqueConstraint(email) == FALSE

\* users.email is unique()
UniqueViolation(email) == \E i \in 1..Len(usersTable) : usersTable[i].email = email

\* faulty variant: the join without its where(eq(userSessions.id, sessionId))
SelectSessionJoinNoWhere(sessionId) ==
    IF userSessions = <<>> THEN <<>>
    ELSE LET s == userSessions[1]
             us == SelectSeq(usersTable, LAMBDA u : u.id = s.userId)
         IN  [i \in 1..Len(us) |->
                 [id |-> s.id, userId |-> s.userId,
                  name |-> us[i].name, email |-> us[i].email]]

\* faulty variant: the join selecting every column of both relations
SelectSessionJoinAllColumns(sessionId) ==
    LET joined(s) ==
            LET us == SelectSeq(usersTable, LAMBDA u : u.id = s.userId)
            IN  [i \in 1..Len(us) |->
                    [id |-> s.id, userId |-> s.userId,
                     name |-> us[i].name, email |-> us[i].email,
                     password |-> us[i].password, salt |-> us[i].salt]]
        matching == SelectSeq(userSessions, LAMBDA s : s.id = sessionId)
    IN  IF matching = <<>> THEN <<>> ELSE joined(matching[1])

\* select {id, userId, name, email} from user_sessions
\*   inner join users on user_sessions.userId = users.id where user_sessions.id = sessionId
SelectSessionJoin(sessionId) ==
    LET joined(s) ==
            LET us == SelectSeq(usersTable, LAMBDA u : u.id = s.userId)
            IN  [i \in 1..Len(us) |->
                    [id |-> s.id, userId |-> s.userId,
                     name |-> us[i].name, email |-> us[i].email]]
        matching == SelectSeq(userSessions, LAMBDA s : s.id = sessionId)
    IN  IF matching = <<>> THEN <<>> ELSE joined(matching[1])

\* const [x] = rows; if (x) ...: x is a row exactly when the result is non-empty
Found(rows) == rows # <<>>

\* ------------------------------------------------------------- connections
Idle == [kind |-> "idle", pc |-> "done"]

Free(c) == conn[c].pc = "done"

\* rows stored, plus the rows the requests in flight may still insert
RowsClaimed ==
    Len(usersTable) + Len(userSessions)
        + Cardinality({c \in Conns : conn[c].kind \in {"signup", "login"}
                                      /\ conn[c].pc = "selected"})

\* new ChatRoom(roomName): this.users = new Set()
ChatRoomConstructor ==
    /\ users = {}
    /\ emitted = <<>>
    /\ stderr = <<>>
    /\ calls = 0
    /\ lastCall = [op |-> "constructor", user |-> Undefined, message |-> Undefined,
                   users |-> {}, emitted |-> <<>>, stderr |-> <<>>]

\* no chat demo is running
NoScript == [calls |-> <<>>, pc |-> 1]

\* db/books.js; numbers are written in decimal
InitialBooks ==
    << [id |-> "1", title |-> "Book One", author |-> "Author One"],
       [id |-> "2", title |-> "Book Two", author |-> "Author Two"] >>

\* the book store after app.listen: server.log holds nothing of this run
BookStoreStart ==
    /\ BOOKS = InitialBooks
    /\ serverLog = <<>>
    /\ handled = <<>>

\* connections to the tweet server
TweetConns == {"t1", "t2"}

\* const db = []; server.listen
TweetServerStart ==
    /\ db = <<>>
    /\ tweetReq = [c \in TweetConns |-> Idle]
    /\ ended = <<>>

\* the todo list application after app.listen, over a store that holds the
\* given users and no todos
TodoAppStart(seed) ==
    /\ todosTable = <<>>
    /\ todoUsersTable = seed
    /\ todoReq = [c \in Conns |-> Idle]

\* the authentication application after app.listen, over empty relations
AuthStart ==
    /\ usersTable = <<>>
    /\ userSessions = <<>>
    /\ conn = [c \in Conns |-> Idle]

Init ==
    /\ AuthStart
    /\ ChatRoomConstructor
    /\ script = NoScript
    /\ BookStoreStart
    /\ TweetServerStart
    /\ TodoAppStart(<<>>)

\* --------------------------------------------------------- POST /user/signup
\* const { name, email, password } = req.body; await db.select(...)
SignupSelect(c, body) ==
    /\ Free(c)
    /\ UNCHANGED notAuthVars
    /\ RowsClaimed < MaxRows
    /\ conn' = [conn EXCEPT ![c] =
            [kind |-> "signup", pc |-> "selected", body |-> body,
             rows |-> SelectUsersByEmail(body.email),
             usersAtStart |-> Len(usersTable),
             dbError |-> "", userId |-> Undefined, resp |-> Pending]]
    /\ UNCHANGED <<usersTable, userSessions>>

\* if (existingUser) return 400; salt; hash; await db.insert(usersTable)...
SignupInsert(c) ==
    LET r == conn[c]
        salt == RandomBytes(Len(usersTable) + 1)
        row == [id |-> Uuid("u", Len(usersTable) + 1), name |-> r.body.name, email |-> r.body.email,
                password |-> Hmac(salt, r.body.password), salt |-> salt]
    IN
    /\ r.kind = "signup" /\ r.pc = "selected"
    /\ UNCHANGED notAuthVars
    /\ IF Found(r.rows)
       THEN \* line 35-37
            /\ conn' = [conn EXCEPT ![c].pc = "done",
                                    ![c].resp = SignupDuplicateResponse(r.body.email)]
            /\ UNCHANGED <<usersTable, userSessions>>
       ELSE IF r.body.password = Undefined
       THEN \* .update(undefined) throws TypeError after the salt was drawn
            /\ \E out \in UnhandledRejection :
                 conn' = [conn EXCEPT ![c].pc = "done", ![c].resp = out,
                                      ![c].dbError = "TypeError"]
            /\ UNCHANGED <<usersTable, userSessions>>
       ELSE IF NotNullViolation(row) \/ UniqueViolation(row.email)
       THEN \* the insert is rejected by the store; nothing catches it
            /\ \E out \in UnhandledRejection :
                 conn' = [conn EXCEPT ![c].pc = "done", ![c].resp = out,
                    ![c].dbError = IF NotNullViolation(row) THEN "not_null_violation"
                                   ELSE "unique_violation"]
            /\ UNCHANGED <<usersTable, userSessions>>
       ELSE /\ usersTable' = Append(usersTable, row)
            /\ conn' = [conn EXCEPT ![c].pc = "inserted", ![c].userId = row.id]
            /\ UNCHANGED userSessions

\* return res.status(201).json({userId: user.id, message})
SignupRespond(c) ==
    /\ conn[c].kind = "signup" /\ conn[c].pc = "inserted"
    /\ UNCHANGED notAuthVars
    /\ conn' = [conn EXCEPT ![c].pc = "done",
                            ![c].resp = SignupCreatedResponse(conn[c].userId)]
    /\ UNCHANGED <<usersTable, userSessions>>

\* ---------------------------------------------------------- POST /user/login
\* faulty variant: the guard without its password half
LoginValidEmailOnly(body) == Truthy(body.email)

\* if (!email || !password) return 400
LoginValid(body) == Truthy(body.email) /\ Truthy(body.password)

\* hashedPassword !== existingUser.password, hashedPassword keyed by the stored salt
PasswordMatches(existingUser, password) ==
    Hmac(existingUser.salt, password) = existingUser.password

\* const { email, password } = req.body; validation; await db.select(...)
LoginSelect(c, body) ==
    /\ Free(c)
    /\ UNCHANGED notAuthVars
    /\ RowsClaimed < MaxRows
    /\ conn' = [conn EXCEPT ![c] =
            IF LoginValid(body)
            THEN [kind |-> "login", pc |-> "selected", body |-> body,
                  rows |-> SelectUsersByEmail(body.email),
                  usersAtStart |-> Len(usersTable), dbCalls |-> 1,
                  sessionId |-> Undefined, resp |-> Pending]
            ELSE [kind |-> "login", pc |-> "done", body |-> body,
                  rows |-> <<>>,
                  usersAtStart |-> Len(usersTable), dbCalls |-> 0,
                  sessionId |-> Undefined, resp |-> LoginRequiredResponse]]
    /\ UNCHANGED <<usersTable, userSessions>>

\* faulty variant: the session bound to the wrong column of the credential
SessionValuesByEmail(existingUser) ==
    [id |-> Uuid("s", Len(userSessions) + 1), userId |-> existingUser.email]

\* .values({ userId: existingUser.id }) with the defaults of the schema
SessionValues(existingUser) ==
    [id |-> Uuid("s", Len(userSessions) + 1), userId |-> existingUser.id]

\* faulty variant: a login that replaces the earlier sessions of its credential
InsertSessionExclusive(session) ==
    Append(SelectSeq(userSessions, LAMBDA s : s.userId # session.userId), session)

\* db.insert(userSessions): the relation after the insert
InsertSession(session) == Append(userSessions, session)

\* faulty variant: the session row is written before the password is compared
LoginInsertEager(c) ==
    LET r == conn[c]
        session == SessionValues(r.rows[1])
    IN
    /\ r.kind = "login" /\ r.pc = "selected"
    /\ UNCHANGED notAuthVars
    /\ IF ~Found(r.rows)
       THEN /\ conn' = [conn EXCEPT ![c].pc = "done", ![c].resp = LoginNoUserResponse]
            /\ UNCHANGED <<usersTable, userSessions>>
       ELSE /\ userSessions' = InsertSession(session)
            /\ UNCHANGED usersTable
            /\ IF ~PasswordMatches(r.rows[1], r.body.password)
               THEN conn' = [conn EXCEPT ![c].pc = "done", ![c].resp = LoginBadPasswordResponse]
               ELSE conn' = [conn EXCEPT ![c].pc = "inserted", ![c].sessionId = session.id,
                                         ![c].dbCalls = 2]

\* if (!existingUser) return 400; hash; compare; await db.insert(userSessions)...
LoginInsert(c) ==
    LET r == conn[c]
        session == SessionValues(r.rows[1])
    IN
    /\ r.kind = "login" /\ r.pc = "selected"
    /\ UNCHANGED notAuthVars
    /\ IF ~Found(r.rows)
       THEN /\ conn' = [conn EXCEPT ![c].pc = "done", ![c].resp = LoginNoUserResponse]
            /\ UNCHANGED <<usersTable, userSessions>>
       ELSE IF ~PasswordMatches(r.rows[1], r.body.password)
       THEN /\ conn' = [conn EXCEPT ![c].pc = "done", ![c].resp = LoginBadPasswordResponse]
            /\ UNCHANGED <<usersTable, userSessions>>
       ELSE /\ userSessions' = InsertSession(session)
            /\ conn' = [conn EXCEPT ![c].pc = "inserted", ![c].sessionId = session.id,
                                    ![c].dbCalls = 2]
            /\ UNCHANGED usersTable

\* return res.status(200).json({ message, sessionId: session.id })
LoginRespond(c) ==
    /\ conn[c].kind = "login" /\ conn[c].pc = "inserted"
    /\ UNCHANGED notAuthVars
    /\ conn' = [conn EXCEPT ![c].pc = "done",
                            ![c].resp = LoginOkResponse(conn[c].sessionId)]
    /\ UNCHANGED <<usersTable, userSessions>>

\* ------------------------------------------- app.use('/') session middleware
\* const sessionId = req.headers['session-id']; if (!sessionId) return 401;
\* await db.select(...).innerJoin(...).where(eq(userSessions.id, sessionId))
ValidateSelect(c, header) ==
    /\ Free(c)
    /\ UNCHANGED notAuthVars
    /\ conn' = [conn EXCEPT ![c] =
            IF ~Truthy(header)
            THEN [kind |-> "validate", pc |-> "done", header |-> header,
                  rows |-> <<>>, dbError |-> "", sessionsAtStart |-> Len(userSessions),
                  user |-> <<>>, next |-> FALSE, resp |-> NoSessionIdResponse]
            ELSE [kind |-> "validate", pc |-> "selected", header |-> header,
                  rows |-> IF IsUuid(header) THEN SelectSessionJoin(header) ELSE <<>>,
                  dbError |-> IF IsUuid(header) THEN ""
                              ELSE "invalid input syntax for type uuid",
                  sessionsAtStart |-> Len(userSessions),
                  user |-> <<>>, next |-> FALSE, resp |-> Pending]]
    /\ UNCHANGED <<usersTable, userSessions>>

\* if (!session) return 401; req.user = session; next(), which for GET / runs
\* the app.get('/') handler registered after the middleware
ValidateAttach(c) ==
    LET r == conn[c] IN
    /\ r.kind = "validate" /\ r.pc = "selected"
    /\ UNCHANGED notAuthVars
    /\ IF r.dbError # ""
       THEN \* the select is rejected by the store; nothing catches it
            \E out \in UnhandledRejection :
                conn' = [conn EXCEPT ![c].pc = "done", ![c].resp = out]
       ELSE IF ~Found(r.rows)
       THEN conn' = [conn EXCEPT ![c].pc = "done", ![c].resp = InvalidSessionResponse]
       ELSE conn' = [conn EXCEPT ![c].pc = "done", ![c].user = <<r.rows[1]>>,
                                 ![c].next = TRUE, ![c].resp = HelloWorldResponse]
    /\ UNCHANGED <<usersTable, userSessions>>

\* ------------------------------------- GET /user/ (ensureAuthenticated, handler)
\* if (!req.user) return 401; next(): TRUE when the guard lets the request pass
EnsureAuthenticated(user) == user # <<>>

\* app.use('/user', router) is registered before app.use('/', ...), so a
\* request under /user enters the router first: its guard and handler run
\* with the req.user that earlier middleware left, and express.json() leaves
\* none.  Guard and handler make no store call
GetUserProfile(c, header) ==
    LET user == <<>> IN
    /\ Free(c)
    /\ UNCHANGED notAuthVars
    /\ conn' = [conn EXCEPT ![c] =
            [kind |-> "profile", pc |-> "done", header |-> header,
             sessionsAtStart |-> Len(userSessions), user |-> user,
             handlerRan |-> EnsureAuthenticated(user),
             resp |-> IF EnsureAuthenticated(user) THEN ProfileResponse(user[1])
                      ELSE NotAuthenticatedResponse]]
    /\ UNCHANGED <<usersTable, userSessions>>

Next ==
    \/ \E c \in Conns, body \in SignupBodies : SignupSelect(c, body)
    \/ \E c \in Conns : SignupInsert(c)
    \/ \E c \in Conns : SignupRespond(c)
    \/ \E c \in Conns, body \in LoginBodies : LoginSelect(c, body)
    \/ \E c \in Conns : LoginInsert(c)
    \/ \E c \in Conns : LoginRespond(c)
    \/ \E c \in Conns, header \in SessionHeaders : ValidateSelect(c, header)
    \/ \E c \in Conns : ValidateAttach(c)

Spec == Init /\ [][Next]_vars

\* the application with its guarded route: the documented scenario (one
\* signup body, one login body) with every session-id header on GET / and on
\* GET /user/
NextGuard ==
    \/ \E c \in Conns : SignupSelect(c, BaseSignup)
    \/ \E c \in Conns : SignupInsert(c)
    \/ \E c \in Conns : SignupRespond(c)
    \/ \E c \in Conns : LoginSelect(c, BaseLogin)
    \/ \E c \in Conns : LoginInsert(c)
    \/ \E c \in Conns : LoginRespond(c)
    \/ \E c \in Conns, header \in SessionHeaders : ValidateSelect(c, header)
    \/ \E c \in Conns : ValidateAttach(c)
    \/ \E c \in Conns, header \in SessionHeaders : GetUserProfile(c, header)

SpecGuard == Init /\ [][NextGuard]_vars

\* ------------------------------------------------------------------ ChatRoom
ChatUsers == {"Alice", "Bob"}
ChatMessages == {"Hello everyone!", "Hi Alice!"}

\* this.emit(event, payload)
Emit(event, payload) == Append(emitted, [event |-> event, payload |-> payload])

\* the call being made, with the state it is made in
Call(op, user, message) ==
    [op |-> op, user |-> user, message |-> message,
     users |-> users, emitted |-> emitted, stderr |-> stderr]

\* join(user) { this.users.add(user); this.emit('userJoined', user); }
Join(user) ==
    /\ users' = users \cup {user}
    /\ emitted' = Emit("userJoined", [user |-> user])
    /\ lastCall' = Call("join", user, Undefined)
    /\ calls' = calls + 1
    /\ UNCHANGED stderr
    /\ UNCHANGED notChatVars

\* faulty variant: leave without its this.users.has(user) test
LeaveUnchecked(user) ==
    /\ users' = users \ {user}
    /\ emitted' = Emit("userLeft", [user |-> user])
    /\ lastCall' = Call("leave", user, Undefined)
    /\ calls' = calls + 1
    /\ UNCHANGED stderr
    /\ UNCHANGED notChatVars

\* leave(user) { if (this.users.has(user)) { delete; emit('userLeft', user) } }
Leave(user) ==
    /\ IF user \in users
       THEN /\ users' = users \ {user}
            /\ emitted' = Emit("userLeft", [user |-> user])
       ELSE UNCHANGED <<users, emitted>>
    /\ lastCall' = Call("leave", user, Undefined)
    /\ calls' = calls + 1
    /\ UNCHANGED stderr
    /\ UNCHANGED notChatVars

\* faulty variant: sendMessage without its this.users.has(user) test
SendMessageUnchecked(user, message) ==
    /\ emitted' = Emit("message", [user |-> user, message |-> message])
    /\ lastCall' = Call("sendMessage", user, message)
    /\ calls' = calls + 1
    /\ UNCHANGED <<users, stderr>>
    /\ UNCHANGED notChatVars

\* sendMessage(user, message) { if (has) emit('message', {user, message})
\*                              else console.error(`${user} is not in the chat room.`) }
SendMessage(user, message) ==
    /\ IF user \in users
       THEN /\ emitted' = Emit("message", [user |-> user, message |-> message])
            /\ UNCHANGED stderr
       ELSE /\ stderr' = Append(stderr, user \o " is not in the chat room.")
            /\ UNCHANGED emitted
    /\ lastCall' = Call("sendMessage", user, message)
    /\ calls' = calls + 1
    /\ UNCHANGED users
    /\ UNCHANGED notChatVars

\* one more call on the room, by a caller other than the demo script
MayCall == calls < MaxCalls /\ UNCHANGED script

NextChat ==
    \/ \E user \in ChatUsers : MayCall /\ Join(user)
    \/ \E user \in ChatUsers : MayCall /\ Leave(user)
    \/ \E user \in ChatUsers, message \in ChatMessages : MayCall /\ SendMessage(user, message)

SpecChat == Init /\ [][NextChat]_vars

\* ------------------------------------------------------- chatApp/index.js
\* the names and the late message the demo is run with; index.js itself uses
\* 'Alice', 'Bob' and 'I am still here?'
DemoUsers == {"Alice", "Bob", "Carol"}
LateMessages == {"I am still here?", ""}

DemoCall(op, user, message) == [op |-> op, user |-> user, message |-> message]

\* index.js lines 18-27, with its two names and its late message as parameters
DemoScript(alice, bob, late) ==
    << DemoCall("join", alice, Undefined),
       DemoCall("join", bob, Undefined),
       DemoCall("sendMessage", alice, "Hello everyone!"),
       DemoCall("sendMessage", bob, "Hi Alice!"),
       DemoCall("leave", alice, Undefined),
       DemoCall("sendMessage", alice, late),
       DemoCall("sendMessage", bob, "Goodbye Alice!"),
       DemoCall("leave", bob, Undefined) >>

\* const chat = new ChatRoom('General'), then the script from its first line
InitDemo ==
    /\ AuthStart
    /\ BookStoreStart
    /\ TweetServerStart
    /\ TodoAppStart(<<>>)
    /\ ChatRoomConstructor
    /\ \E alice \in DemoUsers, bob \in DemoUsers, late \in LateMessages :
          script = [calls |-> DemoScript(alice, bob, late), pc |-> 1]

\* the statement the script is at; a statement that returns normally is
\* followed by the next one
ScriptAt(op) ==
    /\ script.pc <= Len(script.calls)
    /\ script.calls[script.pc].op = op
    /\ script' = [script EXCEPT !.pc = @ + 1]

ScriptJoin == ScriptAt("join") /\ Join(script.calls[script.pc].user)

ScriptLeave == ScriptAt("leave") /\ Leave(script.calls[script.pc].user)

ScriptSendMessage ==
    /\ ScriptAt("sendMessage")
    /\ SendMessage(script.calls[script.pc].user, script.calls[script.pc].message)

NextDemo ==
    \/ ScriptJoin
    \/ ScriptLeave
    \/ ScriptSendMessage

SpecDemo == InitDemo /\ [][NextDemo]_vars

\* --------------------------------------------------------------- book store
\* (express-book-store: index.js, middlewares/logger.js, routes/books.routes.js)
\* Every middleware and route handler is synchronous, so a request is handled
\* in one step once express.json() has read its body.

\* a number, written in decimal (field values of the inputs are never numeric
\* strings, so the text of a number stands for the number)
Num(n) == ToString(n)

NaN == "NaN"

\* a === b
StrictEquals(a, b) == a # NaN /\ b # NaN /\ a = b

DigitValue(ch) ==
    CASE ch = "0" -> 0 [] ch = "1" -> 1 [] ch = "2" -> 2 [] ch = "3" -> 3 [] ch = "4" -> 4
      [] ch = "5" -> 5 [] ch = "6" -> 6 [] ch = "7" -> 7 [] ch = "8" -> 8 [] ch = "9" -> 9

IsDigit(ch) == ch \in {"0", "1", "2", "3", "4", "5", "6", "7", "8", "9"}

RECURSIVE DigitPrefix(_)
DigitPrefix(chars) ==
    IF chars = <<>> \/ ~IsDigit(Head(chars)) THEN <<>>
    ELSE <<Head(chars)>> \o DigitPrefix(Tail(chars))

RECURSIVE DecimalValue(_)
DecimalValue(digits) ==
    IF digits = <<>> THEN 0
    ELSE 10 * DecimalValue(SubSeq(digits, 1, Len(digits) - 1))
            + DigitValue(digits[Len(digits)])

\* parseInt(text, 10) of a text without sign or leading blanks, given as its
\* characters: the value of the longest prefix of digits, NaN when there is none
ParseInt(chars) ==
    IF DigitPrefix(chars) = <<>> THEN NaN ELSE Num(DecimalValue(DigitPrefix(chars)))

\* req.params.id values: the text in the URL and its characters
BookParams ==
    { [text |-> "1", chars |-> <<"1">>],
      [text |-> "2", chars |-> <<"2">>],
      [text |-> "3", chars |-> <<"3">>],
      [text |-> "2abc", chars |-> <<"2", "a", "b", "c">>],
      [text |-> "abc", chars |-> <<"a", "b", "c">>] }

\* JSON objects sent to POST /books
BookBodies ==
    { [title |-> "Test", author |-> "Me"],
      [id |-> "1", title |-> "Test", author |-> "Me"] }

\* { ...a, ...b }
Spread(a, b) ==
    [f \in (DOMAIN a) \cup (DOMAIN b) |-> IF f \in DOMAIN b THEN b[f] ELSE a[f]]

\* BOOKS.findIndex(b => b.id === bookId): index from 0, -1 when none matches
FindIndex(books, bookId) ==
    IF \E i \in 1..Len(books) : StrictEquals(books[i].id, bookId)
    THEN (CHOOSE i \in 1..Len(books) :
             /\ StrictEquals(books[i].id, bookId)
             /\ \A j \in 1..(i - 1) : ~StrictEquals(books[j].id, bookId)) - 1
    ELSE -1

\* faulty variant: BOOKS.splice(bookIndex), which removes up to the end
SpliceToEnd(books, index) == SubSeq(books, 1, index)

\* BOOKS.splice(bookIndex, 1)
Splice(books, index) == SubSeq(books, 1, index) \o SubSeq(books, index + 2, Len(books))

\* the log line of loggerMiddleware, without its timestamp
LogEntry(method, originalUrl) == [method |-> method, originalUrl |-> originalUrl]

\* fs.appendFileSync('server.log', log, 'utf-8')
LoggerMiddleware(method, originalUrl) == Append(serverLog, LogEntry(method, originalUrl))

\* express.json() answers a body that is not JSON itself: its error skips the
\* middlewares and routes after it and reaches Express's error handler
MalformedJsonResponse == [status |-> 400, body |-> [html |-> "SyntaxError"]]

\* no route matches: Express's final handler
CannotGetResponse(method, url) ==
    [status |-> 404, body |-> [html |-> "Cannot " \o method \o " " \o url]]

BookNotFoundResponse == Json(404, [status |-> "error", message |-> "Book not found"])

BookDeletedResponse == Json(200, [status |-> "success", message |-> "Book deleted successfully"])

\* one handled request: what it was, the books it found, the middlewares and
\* handlers that ran for it in order, and its response
Exchange(method, url, param, body, stages, resp) ==
    [method |-> method, url |-> url, param |-> param, body |-> body,
     before |-> BOOKS, stages |-> stages, resp |-> resp]

Routed == <<"express.json", "loggerMiddleware", "route">>

MayRequest == Len(handled) < MaxBookRequests

\* route.get('/')
GetAllBooks ==
    /\ MayRequest
    /\ serverLog' = LoggerMiddleware("GET", "/books")
    /\ handled' = Append(handled,
            Exchange("GET", "/books", <<>>, <<>>, Routed,
                     Json(200, [status |-> "success", data |-> BOOKS, length |-> Len(BOOKS)])))
    /\ UNCHANGED BOOKS
    /\ UNCHANGED notBookVars

\* route.get('/:id')
GetBookById(param) ==
    LET url == "/books/" \o param.text
        bookId == ParseInt(param.chars)
        index == FindIndex(BOOKS, bookId)
    IN  /\ MayRequest
        /\ serverLog' = LoggerMiddleware("GET", url)
        /\ handled' = Append(handled,
                Exchange("GET", url, param.chars, <<>>, Routed,
                         IF index # -1
                         THEN Json(200, [status |-> "success", data |-> BOOKS[index + 1]])
                         ELSE BookNotFoundResponse))
        /\ UNCHANGED BOOKS
        /\ UNCHANGED notBookVars

\* route.post('/') with a JSON object as body
AddNewBook(body) ==
    LET newBook == Spread([id |-> Num(Len(BOOKS) + 1)], body)
    IN  /\ MayRequest
        /\ serverLog' = LoggerMiddleware("POST", "/books")
        /\ BOOKS' = Append(BOOKS, newBook)
        /\ handled' = Append(handled,
                Exchange("POST", "/books", <<>>, body, Routed,
                         Json(201, [status |-> "success", data |-> newBook])))
        /\ UNCHANGED notBookVars

\* POST /books with a body that is not JSON: express.json() (registered
\* before loggerMiddleware) ends the request
PostMalformedJson ==
    /\ MayRequest
    /\ handled' = Append(handled,
            Exchange("POST", "/books", <<>>, <<>>, <<"express.json">>, MalformedJsonResponse))
    /\ UNCHANGED <<BOOKS, serverLog>>
    /\ UNCHANGED notBookVars

\* route.delete('/:id')
DeleteBookById(param) ==
    LET url == "/books/" \o param.text
        bookId == ParseInt(param.chars)
        bookIndex == FindIndex(BOOKS, bookId)
    IN  /\ MayRequest
        /\ serverLog' = LoggerMiddleware("DELETE", url)
        /\ IF bookIndex # -1
           THEN /\ BOOKS' = Splice(BOOKS, bookIndex)
                /\ handled' = Append(handled,
                        Exchange("DELETE", url, param.chars, <<>>, Routed, BookDeletedResponse))
           ELSE /\ UNCHANGED BOOKS
                /\ handled' = Append(handled,
                        Exchange("DELETE", url, param.chars, <<>>, Routed, BookNotFoundResponse))
        /\ UNCHANGED notBookVars

\* a request no route is registered for (app.use('/books', booksRoute) is
\* the only one): it passes express.json() and loggerMiddleware
GetUnrouted ==
    /\ MayRequest
    /\ serverLog' = LoggerMiddleware("GET", "/authors")
    /\ handled' = Append(handled,
            Exchange("GET", "/authors", <<>>, <<>>, <<"express.json", "loggerMiddleware">>,
                     CannotGetResponse("GET", "/authors")))
    /\ UNCHANGED BOOKS
    /\ UNCHANGED notBookVars

NextBooks ==
    \/ GetAllBooks
    \/ \E param \in BookParams : GetBookById(param)
    \/ \E body \in BookBodies : AddNewBook(body)
    \/ PostMalformedJson
    \/ \E param \in BookParams : DeleteBookById(param)
    \/ GetUnrouted

SpecBooks == Init /\ [][NextBooks]_vars

\* -------------------------------------------------------------- tweet server
\* (http-server/index.ts) A request body arrives as Buffers, one 'data' event
\* per chunk, cut wherever the transport cuts it; the listeners of different
\* requests run one at a time, in any order.

\* request bodies as UTF-8 bytes: "hi", "h\u00e9" and the empty body
TweetBodies == { <<"68", "69">>, <<"68", "C3", "A9">>, <<>> }

\* the length of the longest of them
MaxBodyBytes == 3

Ascii == [b \in {"68", "69"} |-> IF b = "68" THEN "h" ELSE "i"]

\* Buffer.prototype.toString() (utf8): a byte sequence that is not a complete
\* character decodes to U+FFFD
RECURSIVE ToStringUtf8(_)
ToStringUtf8(bytes) ==
    IF bytes = <<>> THEN ""
    ELSE IF Head(bytes) \in DOMAIN Ascii
    THEN Ascii[Head(bytes)] \o ToStringUtf8(Tail(bytes))
    ELSE IF Len(bytes) >= 2 /\ bytes[1] = "C3" /\ bytes[2] = "A9"
    THEN "[U+00E9]" \o ToStringUtf8(SubSeq(bytes, 3, Len(bytes)))
    ELSE "[U+FFFD]" \o ToStringUtf8(Tail(bytes))

\* db.join("\n")
RECURSIVE JoinLines(_)
JoinLines(entries) ==
    IF entries = <<>> THEN ""
    ELSE IF Len(entries) = 1 THEN entries[1]
    ELSE entries[1] \o "\n" \o JoinLines(Tail(entries))

TweetFree(c) == tweetReq[c].pc = "done"

TweetsClaimed ==
    Len(db) + Cardinality({c \in TweetConns : tweetReq[c].kind = "post" /\ ~TweetFree(c)})

\* case "POST" / case "/tweet": let body = ""; req.on("data", ...); req.on("end", ...)
TweetPost(c, bytes) ==
    /\ TweetFree(c)
    /\ TweetsClaimed < MaxTweets
    /\ tweetReq' = [tweetReq EXCEPT ![c] =
            [kind |-> "post", pc |-> "receiving", bytes |-> bytes, rest |-> bytes,
             body |-> "", resp |-> Pending]]
    /\ UNCHANGED <<db, ended>>
    /\ UNCHANGED notTweetVars

\* (chunk) => { body += chunk.toString(); } for the next n bytes of the body
TweetData(c, n) ==
    LET r == tweetReq[c]
        chunk == SubSeq(r.rest, 1, n)
    IN  /\ r.kind = "post" /\ r.pc = "receiving"
        /\ n <= Len(r.rest)
        /\ tweetReq' = [tweetReq EXCEPT ![c].body = r.body \o ToStringUtf8(chunk),
                                        ![c].rest = SubSeq(r.rest, n + 1, Len(r.rest))]
        /\ UNCHANGED <<db, ended>>
        /\ UNCHANGED notTweetVars

\* () => { db.push(body); res.writeHead(200, ...).end("Tweet received\n"); }
TweetEnd(c) ==
    LET r == tweetReq[c]
    IN  /\ r.kind = "post" /\ r.pc = "receiving"
        /\ r.rest = <<>>
        /\ db' = Append(db, r.body)
        /\ ended' = Append(ended, [conn |-> c, bytes |-> r.bytes])
        /\ tweetReq' = [tweetReq EXCEPT ![c].pc = "done",
                                        ![c].resp = [status |-> 200, body |-> "Tweet received\n"]]
        /\ UNCHANGED notTweetVars

\* case "GET" / case "/tweet": res.writeHead(200, ...).end(db.join("\n"))
TweetGet(c) ==
    /\ TweetFree(c)
    /\ tweetReq' = [tweetReq EXCEPT ![c] =
            [kind |-> "get", pc |-> "done", endedAtStart |-> Len(ended),
             resp |-> [status |-> 200, body |-> JoinLines(db)]]]
    /\ UNCHANGED <<db, ended>>
    /\ UNCHANGED notTweetVars

NextTweet ==
    \/ \E c \in TweetConns, bytes \in TweetBodies : TweetPost(c, bytes)
    \/ \E c \in TweetConns, n \in 1..MaxBodyBytes : TweetData(c, n)
    \/ \E c \in TweetConns : TweetEnd(c)
    \/ \E c \in TweetConns : TweetGet(c)

SpecTweet == Init /\ [][NextTweet]_vars

\* ---------------------------------------------------------------- todo list
\* (todolist-with-orm-mvc: controllers/todos.controller.js createTodo over
\* models/todos.model.js and models/users.model.js)  createTodo is an async
\* function without try/catch, split at its two awaits.  The routes of
\* controllers/user.controller.js cannot change relation users: every one of
\* them throws inside its try (db.create is no method of the store handle,
\* equals is not defined) and answers 500.

\* users the store may hold when the application starts
SeededUsers ==
    { <<>>,
      << [id |-> "1", firstName |-> "John"] >>,
      << [id |-> "1", firstName |-> "John"], [id |-> "2", firstName |-> "Jane"] >> }

\* the input syntax the store accepts for an integer column
IntegerTexts == {"1", "2", "7"}

TodoTitles == {"Buy milk", "", Undefined}
TodoUserIds == {"1", "7", "abc", Undefined}
TodoBodies == [title : TodoTitles, description : {Undefined}, userId : TodoUserIds]

TitleRequiredResponse == Json(400, [error |-> "Title is required."])

InvalidUserIdResponse == Json(400, [error |-> "Invalid userId. User does not exist."])

TodoCreatedResponse(id) == Json(201, [message |-> "todo created successfully", id |-> id])

\* db.select().from(usersTable).where(eq(usersTable.id, userId)).limit(1);
\* an undefined userId is sent as NULL, which equals no id
SelectTodoUserById(userId) ==
    LET matching == SelectSeq(todoUsersTable, LAMBDA u : u.id = userId)
    IN  IF matching = <<>> THEN <<>> ELSE <<matching[1]>>

\* integer("user_id").references(() => usersTable.id)
ForeignKeyViolation(row) ==
    ~ \E i \in 1..Len(todoUsersTable) : todoUsersTable[i].id = row.userId

\* text("title").notNull(), integer("user_id").notNull()
TodoNotNullViolation(row) == row.title = Undefined \/ row.userId = Undefined

TodoFree(c) == todoReq[c].pc = "done"

TodosClaimed ==
    Len(todosTable)
        + Cardinality({c \in Conns : todoReq[c].kind = "createTodo" /\ todoReq[c].pc = "selected"})

\* createTodo up to its first await: the title test and the users select
CreateTodoSelect(c, body) ==
    LET newTodo == [title |-> body.title, description |-> body.description,
                    userId |-> body.userId]
        request == [kind |-> "createTodo", pc |-> "done", body |-> body, newTodo |-> newTodo,
                    rows |-> <<>>, todosAtStart |-> Len(todosTable), dbError |-> "",
                    todoId |-> Undefined, resp |-> Pending]
    IN  /\ TodoFree(c)
        /\ TodosClaimed < MaxTodos
        /\ IF ~Truthy(body.title)
           THEN todoReq' = [todoReq EXCEPT ![c] =
                    [request EXCEPT !.resp = TitleRequiredResponse]]
           ELSE IF body.userId # Undefined /\ body.userId \notin IntegerTexts
           THEN \* invalid input syntax for type integer; nothing catches it
                \E out \in UnhandledRejection :
                    todoReq' = [todoReq EXCEPT ![c] =
                        [request EXCEPT !.resp = out,
                                        !.dbError = "invalid_text_representation"]]
           ELSE todoReq' = [todoReq EXCEPT ![c] =
                    [request EXCEPT !.pc = "selected",
                                    !.rows = SelectTodoUserById(body.userId)]]
        /\ UNCHANGED <<todosTable, todoUsersTable>>
        /\ UNCHANGED notTodoVars

\* if (userExists.length === 0) return 400; await db.insert(todosTable)...
CreateTodoInsert(c) ==
    LET r == todoReq[c]
        row == [id |-> Num(Len(todosTable) + 1), title |-> r.newTodo.title,
                description |-> r.newTodo.description, completed |-> "false",
                userId |-> r.newTodo.userId]
    IN  /\ r.kind = "createTodo" /\ r.pc = "selected"
        /\ IF r.rows = <<>>
           THEN /\ todoReq' = [todoReq EXCEPT ![c].pc = "done",
                                              ![c].resp = InvalidUserIdResponse]
                /\ UNCHANGED todosTable
           ELSE IF TodoNotNullViolation(row) \/ ForeignKeyViolation(row)
           THEN /\ \E out \in UnhandledRejection :
                     todoReq' = [todoReq EXCEPT ![c].pc = "done", ![c].resp = out,
                                               ![c].dbError = "integrity_constraint_violation"]
                /\ UNCHANGED todosTable
           ELSE /\ todosTable' = Append(todosTable, row)
                /\ todoReq' = [todoReq EXCEPT ![c].pc = "inserted", ![c].todoId = row.id]
        /\ UNCHANGED todoUsersTable
        /\ UNCHANGED notTodoVars

\* return res.status(201).json({ message, id: result?.id })
CreateTodoRespond(c) ==
    /\ todoReq[c].kind = "createTodo" /\ todoReq[c].pc = "inserted"
    /\ todoReq' = [todoReq EXCEPT ![c].pc = "done",
                                  ![c].resp = TodoCreatedResponse(todoReq[c].todoId)]
    /\ UNCHANGED <<todosTable, todoUsersTable>>
    /\ UNCHANGED notTodoVars

InitTodo ==
    /\ AuthStart
    /\ ChatRoomConstructor
    /\ script = NoScript
    /\ BookStoreStart
    /\ TweetServerStart
    /\ \E seed \in SeededUsers : TodoAppStart(seed)

NextTodo ==
    \/ \E c \in Conns, body \in TodoBodies : CreateTodoSelect(c, body)
    \/ \E c \in Conns : CreateTodoInsert(c)
    \/ \E c \in Conns : CreateTodoRespond(c)

SpecTodo == InitTodo /\ [][NextTodo]_vars

\* ===================================================================== claims
Done(c, kind) == conn[c].kind = kind /\ conn[c].pc = "done"

\* the rows a request could see when it started
UsersAtStart(c) == {usersTable[i] : i \in 1..conn[c].usersAtStart}
SessionsAtStart(c) == {userSessions[i] : i \in 1..conn[c].sessionsAtStart}

\* C1 (as stated): for a credential registered before the login started, a
\* login with its email and the password given at signup is answered 200 with
\* the id of a session bound to that credential; with its email and another
\* supplied password it is answered with the generic invalid-credentials 400.
C1_LoginDecidedByPassword ==
    \A c \in Conns : Done(c, "login") =>
        \A u \in UsersAtStart(c) : (u.email = conn[c].body.email) =>
            IF u.password = Hmac(u.salt, conn[c].body.password)
            THEN /\ conn[c].resp.status = 200
                 /\ \E i \in 1..Len(userSessions) :
                        /\ userSessions[i].id = conn[c].resp.body.sessionId
                        /\ userSessions[i].userId = u.id
            ELSE (Truthy(conn[c].body.password)
                    => conn[c].resp = LoginBadPasswordResponse)

\* C2: a validation whose session-id header is the id of a stored session
\* attaches the userId, name and email of the credential that session was
\* created for (the one whose login returned that id), and passes the request
\* on; a header that is not the id of any stored session attaches nothing.
C2_SessionResolvesToOwner ==
    \A c \in Conns : Done(c, "validate") =>
        /\ \A s \in SessionsAtStart(c) : (s.id = conn[c].header) =>
              /\ conn[c].next
              /\ Len(conn[c].user) = 1
              /\ conn[c].user[1].userId = s.userId
              /\ \E i \in 1..Len(usersTable) :
                    /\ usersTable[i].id = s.userId
                    /\ usersTable[i].name = conn[c].user[1].name
                    /\ usersTable[i].email = conn[c].user[1].email
              /\ \A l \in Conns :
                    (Done(l, "login") /\ conn[l].resp.status = 200
                        /\ conn[l].resp.body.sessionId = conn[c].header)
                    => conn[c].user[1].email = conn[l].body.email
        /\ (\A s \in SessionsAtStart(c) : s.id # conn[c].header) =>
              conn[c].user = <<>> /\ ~conn[c].next

\* the session id returned by a login has been presented and validated
C2_Witness ==
    \E c, l \in Conns :
          /\ Done(c, "validate") /\ conn[c].next
          /\ Done(l, "login") /\ conn[l].resp.status = 200
          /\ conn[l].resp.body.sessionId = conn[c].header

\* the claim's normalisation of an email (letter case folded)
NormalizeEmail(e) == IF e = "JOHN@X.COM" THEN "john@x.com" ELSE e

C4_RaceSurfacesAsDuplicate ==
    \A c \in Conns :
        (Done(c, "signup") /\ conn[c].dbError = "unique_violation")
        => conn[c].resp = SignupDuplicateResponse(conn[c].body.email)

\* C5: the users relation never holds two rows with the same email.
C5_OneCredentialPerEmail ==
    \A i, j \in 1..Len(usersTable) :
        usersTable[i].email = usersTable[j].email => i = j

\* two signups raced on one email: both passed the lookup, one row is stored
\* and the other insert was rejected
C5_Witness ==
    \E c \in Conns :
        /\ Done(c, "signup") /\ conn[c].dbError = "unique_violation"
        /\ conn[c].rows = <<>>
        /\ \E i \in 1..Len(usersTable) : usersTable[i].email = conn[c].body.email

\* a login that passed the field check and failed
LoginFailed(c) ==
    Done(c, "login") /\ conn[c].dbCalls = 1

\* C6: a login refused because the email is unknown and a login refused
\* because the password is wrong carry the same status and the same payload.
C6_LoginFailuresIndistinguishable ==
    \A a, b \in Conns :
        (LoginFailed(a) /\ LoginFailed(b) /\ ~Found(conn[a].rows) /\ Found(conn[b].rows))
        => conn[a].resp = conn[b].resp

\* one connection holds an unknown-email refusal, the other a wrong-password one
C6_Witness ==
    \E a, b \in Conns :
        /\ LoginFailed(a) /\ LoginFailed(b)
        /\ ~Found(conn[a].rows) /\ Found(conn[b].rows)
        /\ conn[b].resp.status = 400

\* C7 (as stated): a validation whose header is missing or is not the id of a
\* stored session is answered 401, attaches no identity and does not pass the
\* request on.
C7_UnissuedSessionIdGets401 ==
    \A c \in Conns :
        (/\ Done(c, "validate")
         /\ \A s \in SessionsAtStart(c) : s.id # conn[c].header)
        => /\ conn[c].resp.status = 401
           /\ conn[c].user = <<>>
           /\ ~conn[c].next

\* C8 (as stated): a signup with a missing or empty name, email or password is
\* answered with a 400 and creates no credential.
C8_SignupRequiresAllFields ==
    \A c \in Conns :
        (/\ Done(c, "signup")
         /\ ~(Truthy(conn[c].body.name) /\ Truthy(conn[c].body.email)
                /\ Truthy(conn[c].body.password)))
        => /\ conn[c].resp.status = 400
           /\ conn[c].userId = Undefined

\* C9: a login whose email or password is missing (or empty) is answered at
\* once with the 400 validation error, having made no store call and created
\* no session.
C9_LoginMissingFieldRejected ==
    \A c \in Conns :
        (/\ conn[c].kind = "login"
         /\ ~(Truthy(conn[c].body.email) /\ Truthy(conn[c].body.password)))
        => /\ conn[c].pc = "done"
           /\ conn[c].resp = LoginRequiredResponse
           /\ conn[c].dbCalls = 0
           /\ conn[c].sessionId = Undefined

\* a login without a password and a login without an email have been answered
C9_Witness ==
    \E a, b \in Conns :
        /\ Done(a, "login") /\ conn[a].body.password = Undefined
        /\ Done(b, "login") /\ conn[b].body.email = Undefined

\* C10 (as stated): the identity attached by a successful validation has the
\* owning credential's identifier as its id, with that credential's name and
\* email.
C10_AttachedIdIsCredentialId ==
    \A c \in Conns : (Done(c, "validate") /\ conn[c].user # <<>>) =>
        \E i \in 1..Len(usersTable) :
            /\ usersTable[i].id = conn[c].user[1].id
            /\ usersTable[i].name = conn[c].user[1].name
            /\ usersTable[i].email = conn[c].user[1].email

\* the password hashes and salts held by the store
StoredSecrets ==
    {usersTable[i].password : i \in 1..Len(usersTable)}
        \cup {usersTable[i].salt : i \in 1..Len(usersTable)}

\* every value a request has sent to its caller or attached as req.user
Exposed(c) ==
    {conn[c].resp.body[f] : f \in DOMAIN conn[c].resp.body}
        \cup (IF conn[c].kind = "validate" /\ conn[c].user # <<>>
              THEN {conn[c].user[1][f] : f \in DOMAIN conn[c].user[1]}
              ELSE {})

\* C11: no value of a signup response, of a login response or of the identity
\* attached by session validation is a stored password hash or a stored salt.
C11_SecretsStayInStore ==
    \A c \in Conns : conn[c].kind # "idle" => Exposed(c) \cap StoredSecrets = {}

\* an identity has been attached for a credential whose signup was answered
C11_Witness ==
    \E c, d \in Conns :
        /\ Done(c, "validate") /\ conn[c].user # <<>>
        /\ Done(d, "signup") /\ conn[d].resp.status = 201
        /\ conn[c].user[1].userId = conn[d].resp.body.userId

\* C12: session ids are pairwise distinct, and the session created by every
\* successful login, whether answered yet or not and whatever logins came
\* after it, is still stored, bound to the credential that logged in, and
\* resolves to it.
C12_LoginsAdditive ==
    /\ \A i, j \in 1..Len(userSessions) :
          userSessions[i].id = userSessions[j].id => i = j
    /\ \A c \in Conns :
          (conn[c].kind = "login" /\ conn[c].sessionId # Undefined) =>
              /\ \E i \in 1..Len(userSessions) :
                    /\ userSessions[i].id = conn[c].sessionId
                    /\ userSessions[i].userId = conn[c].rows[1].id
              /\ SelectSessionJoin(conn[c].sessionId) # <<>>
              /\ SelectSessionJoin(conn[c].sessionId)[1].email = conn[c].body.email
    /\ \A a, b \in Conns :
          (/\ a # b
           /\ conn[a].kind = "login" /\ conn[a].sessionId # Undefined
           /\ conn[b].kind = "login" /\ conn[b].sessionId # Undefined)
          => conn[a].sessionId # conn[b].sessionId

\* two logins of one credential have both been answered with a session id
C12_Witness ==
    \E a, b \in Conns :
        /\ a # b
        /\ Done(a, "login") /\ conn[a].resp.status = 200
        /\ Done(b, "login") /\ conn[b].resp.status = 200
        /\ conn[a].body.email = conn[b].body.email

\* C13: every stored session resolves to a credential; a session row, once
\* stored, is never changed or removed, and neither is a credential row, so
\* what its id resolves to never changes; session rows are added one at a
\* time, only by the insert of a login that matched its password.
C13_SessionStaysActive ==
    /\ [](\A i \in 1..Len(userSessions) : SelectSessionJoin(userSessions[i].id) # <<>>)
    /\ [][/\ \A i \in 1..Len(userSessions) :
                Len(userSessions') >= i /\ userSessions'[i] = userSessions[i]
          /\ \A j \in 1..Len(usersTable) :
                Len(usersTable') >= j /\ usersTable'[j] = usersTable[j]
          /\ Len(userSessions') # Len(userSessions) =>
                /\ Len(userSessions') = Len(userSessions) + 1
                /\ \E c \in Conns :
                      /\ conn[c].kind = "login" /\ conn[c].pc = "selected"
                      /\ Found(conn[c].rows)
                      /\ PasswordMatches(conn[c].rows[1], conn[c].body.password)
                      /\ conn'[c].pc = "inserted"
                      /\ conn'[c].sessionId = userSessions'[Len(userSessions')].id]_vars

\* the first session has been validated again after a later login stored a
\* second one
C13_Witness ==
    \E c \in Conns :
        /\ Done(c, "validate") /\ conn[c].next
        /\ conn[c].sessionsAtStart = 2
        /\ conn[c].header = userSessions[1].id

\* C14: every session row references a stored credential, and every identity
\* attached by session validation carries the id of a stored credential.
C14_SessionsReferenceCredentials ==
    /\ \A i \in 1..Len(userSessions) :
          \E j \in 1..Len(usersTable) : usersTable[j].id = userSessions[i].userId
    /\ \A c \in Conns :
          (conn[c].kind = "validate" /\ conn[c].user # <<>>) =>
              \E j \in 1..Len(usersTable) : usersTable[j].id = conn[c].user[1].userId

\* a stored session has been resolved
C14_Witness ==
    \E c \in Conns :
        /\ Done(c, "validate") /\ conn[c].user # <<>>
        /\ \E i \in 1..Len(userSessions) : userSessions[i].id = conn[c].user[1].id

\* a request whose store call was rejected by the store
StoreCallFailed(c) ==
    /\ conn[c].kind \in {"signup", "validate"} /\ conn[c].pc = "done"
    /\ conn[c].dbError \in {"unique_violation", "not_null_violation",
                             "invalid input syntax for type uuid"}

\* C15 (as stated): a request whose store call failed is answered with the
\* generic internal error (500) and leaves no record of its own behind.
C15_StoreFailureIs500 ==
    \A c \in Conns : StoreCallFailed(c) =>
        /\ conn[c].resp = InternalError
        /\ conn[c].kind = "signup" => conn[c].userId = Undefined

\* C16: no two credentials share a salt, and every stored hash is keyed by the
\* salt stored in the same row.
C16_SaltsUnique ==
    /\ \A i, j \in 1..Len(usersTable) :
          usersTable[i].salt = usersTable[j].salt => i = j
    /\ \A i \in 1..Len(usersTable) :
          \E p \in Passwords : usersTable[i].password = Hmac(usersTable[i].salt, p)

\* two credentials are stored, one of them with the password of the other
C16_Witness ==
    /\ Len(usersTable) = 2
    /\ \E p \in Passwords :
          /\ usersTable[1].password = Hmac(usersTable[1].salt, p)
          /\ usersTable[2].password = Hmac(usersTable[2].salt, p)

\* C18 (as stated): a GET / request without a session-id header is answered
\* with 'Hello, World!'.
C18_RootWithoutSessionSaysHello ==
    \A c \in Conns :
        (Done(c, "validate") /\ conn[c].header = Undefined)
        => conn[c].resp = HelloWorldResponse

\* C17 (as stated): a request to the guarded route GET /user/ that carries the
\* id of a stored session passes ensureAuthenticated and reaches the handler;
\* any other is answered 401 and the handler does not run.
C17_GuardSeesIdentity ==
    \A c \in Conns : Done(c, "profile") =>
        IF \E s \in SessionsAtStart(c) : s.id = conn[c].header
        THEN conn[c].handlerRan /\ conn[c].resp.status = 200
        ELSE ~conn[c].handlerRan /\ conn[c].resp.status = 401

\* C19: sendMessage(user, message) appends exactly the event 'message' with
\* payload {user, message} when user is in the room and appends no event when
\* user is not; in both cases the set of users is as before the call.
C19_SendMessageOnlyFromMembers ==
    lastCall.op = "sendMessage" =>
        /\ users = lastCall.users
        /\ IF lastCall.user \in lastCall.users
           THEN emitted = Append(lastCall.emitted,
                    [event |-> "message",
                     payload |-> [user |-> lastCall.user, message |-> lastCall.message]])
           ELSE emitted = lastCall.emitted

\* a user who joined, sent a message and left has just called sendMessage again
C19_Witness ==
    /\ lastCall.op = "sendMessage"
    /\ lastCall.user \notin lastCall.users
    /\ \E i \in 1..Len(emitted) :
          emitted[i].event = "message" /\ emitted[i].payload.user = lastCall.user

\* C20: leave(user) removes user and appends exactly the event 'userLeft'
\* when user is in the room; when user is not, it changes neither the users
\* nor the events and writes nothing.
C20_LeaveOnlyMembers ==
    lastCall.op = "leave" =>
        IF lastCall.user \in lastCall.users
        THEN /\ users = lastCall.users \ {lastCall.user}
             /\ emitted = Append(lastCall.emitted,
                    [event |-> "userLeft", payload |-> [user |-> lastCall.user]])
        ELSE /\ users = lastCall.users
             /\ emitted = lastCall.emitted
             /\ stderr = lastCall.stderr

\* a user who had left has just called leave again, with another user in the room
C20_Witness ==
    /\ lastCall.op = "leave"
    /\ lastCall.user \notin lastCall.users
    /\ lastCall.users # {}
    /\ \E i \in 1..Len(emitted) :
          emitted[i].event = "userLeft" /\ emitted[i].payload.user = lastCall.user

\* C21: in the chat demo run with two different names, every statement of the
\* script executes, and what has been observed after each statement is the
\* documented sequence up to it: userJoined(first), userJoined(second),
\* message(first), message(second), userLeft(first), one error line for the
\* first name and no event, message(second), userLeft(second).
DemoEvents(alice, bob) ==
    << [event |-> "userJoined", payload |-> [user |-> alice]],
       [event |-> "userJoined", payload |-> [user |-> bob]],
       [event |-> "message", payload |-> [user |-> alice, message |-> "Hello everyone!"]],
       [event |-> "message", payload |-> [user |-> bob, message |-> "Hi Alice!"]],
       [event |-> "userLeft", payload |-> [user |-> alice]],
       [event |-> "message", payload |-> [user |-> bob, message |-> "Goodbye Alice!"]],
       [event |-> "userLeft", payload |-> [user |-> bob]] >>

LastExchange == handled[Len(handled)]

\* no POST /books so far carried an id of its own in its body
OnlyGeneratedIds ==
    \A k \in 1..Len(handled) :
        handled[k].method = "POST" => "id" \notin DOMAIN handled[k].body

\* C22 (as stated, for books whose ids the server generated): after any
\* sequence of POST /books and DELETE /books/:id requests, no two books in the
\* collection have the same id.
C22_BookIdsUnique ==
    OnlyGeneratedIds =>
        \A i, j \in 1..Len(BOOKS) : BOOKS[i].id = BOOKS[j].id => i = j

\* C23 (as stated, for books whose ids the server generated): a GET /books/:id
\* that follows a DELETE /books/:id answered 200 for the same id, with no POST
\* in between that created that id, is answered 404.
C23_DeletedBookIsGone ==
    OnlyGeneratedIds =>
        \A i, j \in 1..Len(handled) :
            ( /\ i < j
              /\ handled[i].method = "DELETE" /\ handled[i].resp.status = 200
              /\ handled[j].method = "GET" /\ handled[j].param # <<>>
              /\ ParseInt(handled[j].param) = ParseInt(handled[i].param)
              /\ ~ \E k \in (i + 1)..(j - 1) :
                      /\ handled[k].method = "POST" /\ handled[k].resp.status = 201
                      /\ handled[k].resp.body.data.id = ParseInt(handled[i].param) )
            => handled[j].resp.status = 404

\* C24 (as stated): a POST /books with a JSON object as body is answered 201
\* with a book that has the fields of the body and, as its id, the number of
\* books before the request plus one; that book is appended to the collection.
C24_PostAssignsGeneratedId ==
    (handled # <<>> /\ LastExchange.method = "POST" /\ LastExchange.stages = Routed) =>
        /\ LastExchange.resp.status = 201
        /\ LastExchange.resp.body.data.id = Num(Len(LastExchange.before) + 1)
        /\ \A f \in (DOMAIN LastExchange.body) \ {"id"} :
              LastExchange.resp.body.data[f] = LastExchange.body[f]
        /\ BOOKS = Append(LastExchange.before, LastExchange.resp.body.data)

\* C25: a DELETE /books/:id whose id (parseInt of the parameter) is the id of a
\* book removes the first book with that id, keeps every other book in place
\* and order, and answers 200; one whose id is the id of no book answers 404
\* and leaves the collection as it was.
C25_DeleteRemovesFirstMatch ==
    (handled # <<>> /\ LastExchange.method = "DELETE") =>
        LET before == LastExchange.before
            bookId == ParseInt(LastExchange.param)
            matches == {i \in 1..Len(before) : StrictEquals(before[i].id, bookId)}
        IN  IF matches # {}
            THEN /\ LastExchange.resp = BookDeletedResponse
                 /\ Len(BOOKS) = Len(before) - 1
                 /\ \E k \in matches :
                       /\ \A i \in matches : k <= i
                       /\ \A i \in 1..Len(BOOKS) :
                             BOOKS[i] = IF i < k THEN before[i] ELSE before[i + 1]
            ELSE /\ LastExchange.resp = BookNotFoundResponse
                 /\ BOOKS = before

\* a DELETE has just removed the first of two books with the same id, a book
\* with another id standing after it
C25_Witness ==
    /\ handled # <<>>
    /\ LastExchange.method = "DELETE"
    /\ LastExchange.resp.status = 200
    /\ \E i, j, k \in 1..Len(LastExchange.before) :
          /\ i < k /\ k < j
          /\ LastExchange.before[i].id = ParseInt(LastExchange.param)
          /\ LastExchange.before[j].id = ParseInt(LastExchange.param)
          /\ LastExchange.before[k].id # ParseInt(LastExchange.param)
    /\ Len(BOOKS) = Len(LastExchange.before) - 1

\* C26 (as stated): server.log holds exactly one entry for every request
\* handled, in the order the requests were handled, and for a request that
\* reached a route, loggerMiddleware ran before the route.
C26_EveryRequestLogged ==
    /\ Len(serverLog) = Len(handled)
    /\ \A i \in 1..Len(handled) :
          /\ i <= Len(serverLog)
          /\ serverLog[i] = LogEntry(handled[i].method, handled[i].url)
          /\ handled[i].stages \in {Routed, SubSeq(Routed, 1, 2)}

\* C27: no step of a login request that ends refused (a missing field, an
\* unknown email or a wrong password) changes the credentials or the sessions,
\* and the refused request has no session id.
C27_FailedLoginChangesNothing ==
    [][\A c \in Conns :
          ( /\ conn'[c] # conn[c]
            /\ conn'[c].kind = "login"
            /\ \/ conn'[c].pc = "selected"
               \/ conn'[c].pc = "done" /\ conn'[c].resp.status # 200 )
          => /\ usersTable' = usersTable
             /\ userSessions' = userSessions
             /\ conn'[c].sessionId = Undefined]_vars

\* with a session stored, a login for the same credential has been refused
\* for its password, and one has been refused for a missing field
C27_Witness ==
    /\ Len(userSessions) = 1
    /\ \E a, b \in Conns :
          /\ LoginFailed(a) /\ Found(conn[a].rows)
          /\ conn[a].rows[1].id = userSessions[1].userId
          /\ Done(b, "login") /\ conn[b].dbCalls = 0

\* the events with the given name emitted for the given user, by position
EventsOf(event, user) ==
    {i \in 1..Len(emitted) : emitted[i].event = event /\ emitted[i].payload.user = user}

\* C28: every 'message' event of a user has a 'userJoined' event of that user
\* before it with no 'userLeft' event of that user in between, and no user has
\* more 'userLeft' events than 'userJoined' events.
C28_EventsFollowMembership ==
    \A user \in ChatUsers :
        /\ \A i \in EventsOf("message", user) :
              \E j \in EventsOf("userJoined", user) :
                  /\ j < i
                  /\ \A k \in EventsOf("userLeft", user) : ~(j < k /\ k < i)
        /\ Cardinality(EventsOf("userLeft", user)) <= Cardinality(EventsOf("userJoined", user))

\* a user has joined, left, joined again and then sent a message
C28_Witness ==
    \E user \in ChatUsers :
        \E j1 \in EventsOf("userJoined", user), k \in EventsOf("userLeft", user),
           j2 \in EventsOf("userJoined", user), i \in EventsOf("message", user) :
            j1 < k /\ k < j2 /\ j2 < i

\* the text of the bodies of the first n requests that ended
RECURSIVE EndedBodies(_)
EndedBodies(n) ==
    IF n = 0 THEN <<>> ELSE Append(EndedBodies(n - 1), ToStringUtf8(ended[n].bytes))

\* C29 (as stated): db holds one entry per POST /tweet request that ended, in
\* the order they ended, each entry being the complete body of its request,
\* and GET /tweet returns those entries in that order.
C29_TweetsAreWholeBodies ==
    /\ db = EndedBodies(Len(ended))
    /\ \A c \in TweetConns :
          tweetReq[c].kind = "get" =>
              tweetReq[c].resp.body = JoinLines(EndedBodies(tweetReq[c].endedAtStart))

\* the part of C29 about interleaving, which holds: for requests whose bodies
\* are ASCII, whatever the order of the 'data' events of different requests,
\* every entry of db is the complete body of the request that pushed it
AsciiTweetsAreWholeBodies ==
    /\ Len(db) = Len(ended)
    /\ \A i \in 1..Len(ended) :
          (\A k \in 1..Len(ended[i].bytes) : ended[i].bytes[k] \in DOMAIN Ascii)
          => db[i] = ToStringUtf8(ended[i].bytes)

\* C30 (as stated): a createTodo request inserts a todo only when its title
\* is non-empty and its userId is the id of a user; when the title is missing
\* or empty, or the userId is the id of no user, it is answered 400 and inserts
\* nothing; every todo references a user.
C30_TodoNeedsTitleAndUser ==
    /\ \A c \in Conns :
          (todoReq[c].kind = "createTodo" /\ todoReq[c].pc = "done") =>
              IF /\ Truthy(todoReq[c].body.title)
                 /\ \E i \in 1..Len(todoUsersTable) :
                       todoUsersTable[i].id = todoReq[c].body.userId
              THEN todoReq[c].todoId # Undefined => todoReq[c].resp.status = 201
              ELSE todoReq[c].resp.status = 400 /\ todoReq[c].todoId = Undefined
    /\ \A t \in 1..Len(todosTable) :
          /\ Truthy(todosTable[t].title)
          /\ \E i \in 1..Len(todoUsersTable) : todoUsersTable[i].id = todosTable[t].userId

====
